---- MODULE Spec2Model ----
(***************************************************************************)
(* A model of the CIRS backend (src/backend/server.py): the FastAPI        *)
(* request handlers and the MongoDB collections they drive.                *)
(*                                                                         *)
(* Every handler is an async function; each `await db.<coll>.<call>` is    *)
(* one atomic store call and a point where other requests may run.  A      *)
(* request is a process: the action that accepts it, then one action per   *)
(* store call of its handler.  A collection is the set of its documents:   *)
(* MongoDB promises no order among them, so find_one returns any document  *)
(* that matches its filter.                                                *)
(*                                                                         *)
(* Every stored document carries two identifiers: the field `id`, a uuid4  *)
(* string the pydantic model generates, and `_id`, the ObjectId the store  *)
(* adds on insert.  Both are modelled, and so is str(ObjectId).            *)
(*                                                                         *)
(* Document fields that no handler reads after writing them (phone,        *)
(* title, description, address, image_base64, updated_at, ...) are left    *)
(* out of the documents.                                                   *)
(*                                                                         *)
(* A Python dict is a record.  A key the dict does not hold is a field     *)
(* with the value NoObjectId (for `_id`) or Absent (for a string).  Every  *)
(* record constructor lists its fields in the order in which the field     *)
(* names first occur in this module.                                       *)
(***************************************************************************)
EXTENDS Integers, FiniteSets, Sequences, TLC

\* The number of requests the service accepts in one behaviour.
NumProcs == 3

Procs == 1..NumProcs

\* The number of those that may be POST /api/categories/init.
MaxReseeds == 2

\* GET /api/issues is asked for 1..MaxLimit issues, or for the default.
MaxLimit == 2

\* The values clients put in requests.
Emails == {"john@example.com", "jane@example.com"}
Passwords == {"securepassword123", "wrongpassword"}
Names == {"John Doe"}

\* Python's None where a string may stand (Optional[str]).
NoneStr == "None"

\* IssueCreate.voice_base64: absent, or a recording.
Voices == {NoneStr, "dm9pY2Ugbm90ZQ=="}

\* Coordinates are counted in hundredths of a degree.  The place the tests
\* report from and search at: 40.7128, -74.0060.
TestLat == 4071
TestLng == -7401

VARIABLES
    users,       \* db.users
    categories,  \* db.categories
    issues,      \* db.issues
    votes,       \* db.votes
    comments,    \* db.comments
    pc,          \* pc[p]: the store call request p is about to make
    req,         \* req[p]: the request's parameters
    local,       \* local[p]: the handler's local variables
    resp,        \* resp[p]: the response sent to the client
    atStart      \* history: atStart[p] is what users, issues, votes and
                 \* comments held when request p was accepted

store == <<users, categories, issues, votes, comments>>
vars ==
    <<users, categories, issues, votes, comments, pc, req, local, resp, atStart>>

----------------------------------------------------------------------------
\* Identifiers.  A string is a triple <<kind, p, k>>: the k-th identifier of
\* its kind generated while serving request p.

\* str(uuid.uuid4()): the default of the field `id`.
Uuid(p, k) == <<"uuid4", p, k>>

\* The ObjectId insert_one gives the document as `_id`.
ObjectId(p, k) == <<"ObjectId", p, k>>

\* str(ObjectId): 24 hex digits, never the text of a uuid4.
Str(oid) == <<"hex24", oid[2], oid[3]>>

\* The `_id` of a dict that has no key `_id`.
NoObjectId == <<"no _id", 0, 0>>

\* The value of a string key that a dict does not hold.
Absent == "(absent)"

\* Python's None where an identifier may stand (Optional[str]), and "".
NoneId == <<"None", 0, 0>>
EmptyStr == <<"", 0, 0>>

\* A string that is no identifier of any document ("invalid-id" in the tests).
InvalidId == <<"invalid-id", 0, 0>>

\* User ids a client may send: no handler checks that a user_id names a
\* registered user, and toggle_vote never reads db.users.
ClientUserIds == {<<"client", 1, 0>>, <<"client", 2, 0>>}

\* hashlib.sha256(password.encode()).hexdigest()
Sha256Hex(password) == <<"sha256", password>>

\* Python's None, and the empty request, response and snapshot of an idle slot.
None == [none |-> TRUE]
NoRequest == [op |-> "none"]
NoResponse == [status |-> 0]
NoSnapshot == [users |-> {}, issues |-> {}, votes |-> {}, comments |-> {}]

\* object_id_to_str: if "_id" in doc: doc["id"] = str(doc["_id"]); del doc["_id"].
object_id_to_str(doc) ==
    IF doc._id # NoObjectId
    THEN [doc EXCEPT !.id = Str(doc._id), !._id = NoObjectId]
    ELSE doc

\* user.dict() / issue.dict() with ["id"] = str(result.inserted_id): what
\* register and create return.
WithInsertedId(model, inserted_id) == [model EXCEPT !.id = Str(inserted_id)]

----------------------------------------------------------------------------
\* The documents.

\* model.dict() of each pydantic model: it has no `_id` yet.
User(p, name, email, password_hash) ==
    [_id |-> NoObjectId, id |-> Uuid(p, 1), name |-> name, email |-> email,
     password_hash |-> password_hash, role |-> "citizen"]

Category(p, k, data) ==
    [_id |-> NoObjectId, id |-> Uuid(p, k), name |-> data.name,
     description |-> data.description, icon |-> data.icon]

Issue(p, user_id, category_id, voice_base64, voice_transcript, location_lat, location_long, created_at) ==
    [status |-> "pending", _id |-> NoObjectId, id |-> Uuid(p, 1),
     user_id |-> user_id, category_id |-> category_id,
     voice_base64 |-> voice_base64, voice_transcript |-> voice_transcript,
     location_lat |-> location_lat, location_long |-> location_long,
     created_at |-> created_at, vote_count |-> 0]

Vote(p, issue_id, user_id) ==
    [_id |-> NoObjectId, id |-> Uuid(p, 1), user_id |-> user_id,
     issue_id |-> issue_id]

Comment(p, issue_id, user_id, message, created_at) ==
    [_id |-> NoObjectId, id |-> Uuid(p, 1), user_id |-> user_id,
     created_at |-> created_at, issue_id |-> issue_id, message |-> message]

\* insert_one(model.dict()): the stored document is the dict plus `_id`.
Stored(model, oid) == [model EXCEPT !._id = oid]

\* datetime.utcnow(), read when a document is built, which its handler does
\* right before the insert: a logical clock that has advanced since the
\* latest document of the collection was built.
utcnow(coll) ==
    IF coll = {}
    THEN 1
    ELSE 1 + CHOOSE t \in {d.created_at : d \in coll} :
                 \A d \in coll : d.created_at <= t

default_categories == <<
    [name |-> "Roads & Transportation",
     description |-> "Potholes, traffic issues, road repairs", icon |-> "car"],
    [name |-> "Water & Sanitation",
     description |-> "Water leaks, drainage, sewage", icon |-> "water-drop"],
    [name |-> "Electricity",
     description |-> "Power outages, street lights, electrical issues", icon |-> "flash"],
    [name |-> "Waste Management",
     description |-> "Garbage collection, littering, recycling", icon |-> "trash"],
    [name |-> "Public Safety",
     description |-> "Security, crime, emergency services", icon |-> "shield"],
    [name |-> "Parks & Recreation",
     description |-> "Parks maintenance, recreational facilities", icon |-> "leaf"],
    [name |-> "Other", description |-> "Other civic issues", icon |-> "help-circle"] >>

----------------------------------------------------------------------------
\* What a client may send as an identifier: the `id` field of a stored
\* document, the id the API shows for it (str of its `_id`), or a string
\* that identifies nothing.

IssueIdInputs ==
    {i.id : i \in issues} \cup {Str(i._id) : i \in issues} \cup {InvalidId}

\* The author of an issue: a registered user, or the first of the others.
AuthorIdInputs == {Str(u._id) : u \in users} \cup {<<"client", 1, 0>>}

\* Category ids are taken from the first seed category only.
CategoryIdInputs ==
    LET cs == {c \in categories : c.name = default_categories[1].name}
    IN  {c.id : c \in cs} \cup {Str(c._id) : c \in cs} \cup {InvalidId}

----------------------------------------------------------------------------
\* Request bookkeeping.

InFlight(p) == pc[p] \notin {"idle", "done"}

\* Request slots are taken in order.
CanAccept(p) == pc[p] = "idle" /\ (IF p = 1 THEN TRUE ELSE pc[p - 1] # "idle")

Accept(p, r, first) ==
    /\ CanAccept(p)
    /\ pc' = [pc EXCEPT ![p] = first]
    /\ req' = [req EXCEPT ![p] = r]
    /\ atStart' = [atStart EXCEPT ![p] =
            [users |-> users, issues |-> issues, votes |-> votes,
             comments |-> comments]]
    /\ UNCHANGED <<users, categories, issues, votes, comments, local, resp>>

Goto(p, label) == pc' = [pc EXCEPT ![p] = label]

Return(p, r) ==
    /\ pc' = [pc EXCEPT ![p] = "done"]
    /\ resp' = [resp EXCEPT ![p] = r]

HTTPException(status_code, detail) ==
    [status |-> status_code, detail |-> detail]

----------------------------------------------------------------------------
\* POST /api/users/register

Register(p) ==
    \E name \in Names, email \in Emails, password \in Passwords :
        Accept(p, [password |-> password, op |-> "register", name |-> name,
                   email |-> email], "reg_find")

\* A slip: the lookup reads the field `id`.
RegisterFilterOnId(u, email) == u.id = email

\* The filter {"email": user_data.email}.
RegisterFilter(u, email) == u.email = email

\* existing_user = await db.users.find_one({"email": user_data.email})
RegFind(p) ==
    /\ pc[p] = "reg_find"
    /\ IF \E u \in users : RegisterFilter(u, req[p].email)
       THEN Return(p, HTTPException(400, "Email already registered"))
       ELSE Goto(p, "reg_insert") /\ UNCHANGED resp
    /\ UNCHANGED <<users, categories, issues, votes, comments, req, local, atStart>>

\* result = await db.users.insert_one(user.dict())
RegInsert(p) ==
    /\ pc[p] = "reg_insert"
    /\ LET user == User(p, req[p].name, req[p].email, Sha256Hex(req[p].password))
           inserted_id == ObjectId(p, 1)
       IN  /\ users' = users \cup {Stored(user, inserted_id)}
           /\ Return(p, [status |-> 200,
                         user |-> WithInsertedId(user, inserted_id),
                         success |-> TRUE])
    /\ UNCHANGED <<categories, issues, votes, comments, req, local, atStart>>

----------------------------------------------------------------------------
\* POST /api/users/login

Login(p) ==
    \E email \in Emails, password \in Passwords :
        Accept(p, [password |-> password, op |-> "login", email |-> email],
               "login_find")

\* A slip: the lookup leaves the password out.
LoginFilterEmailOnly(u, email, password_hash) == u.email = email

\* The filter {"email": login_data.email, "password_hash": password_hash}.
LoginFilter(u, email, password_hash) ==
    u.email = email /\ u.password_hash = password_hash

\* user = await db.users.find_one({...})
LoginFind(p) ==
    /\ pc[p] = "login_find"
    /\ LET found == {u \in users :
                        LoginFilter(u, req[p].email, Sha256Hex(req[p].password))}
       IN  IF found = {}
           THEN Return(p, HTTPException(401, "Invalid credentials"))
           ELSE \E u \in found :
                    Return(p, [status |-> 200, user |-> object_id_to_str(u),
                               success |-> TRUE])
    /\ UNCHANGED <<users, categories, issues, votes, comments, req, local, atStart>>

----------------------------------------------------------------------------
\* POST /api/categories/init

InitCategories(p) ==
    /\ Cardinality({q \in Procs : req[q] = [op |-> "init_categories"]}) < MaxReseeds
    /\ Accept(p, [op |-> "init_categories"], "init_delete")

\* A slip: nothing is deleted before the seed is inserted.
delete_many_none(coll) == coll

\* delete_many({}): the empty filter matches every document.
delete_many_all(coll) == {}

\* await db.categories.delete_many({})
InitDelete(p) ==
    /\ pc[p] = "init_delete"
    /\ categories' = delete_many_all(categories)
    /\ local' = [local EXCEPT ![p].i = 1]
    /\ Goto(p, "init_insert")
    /\ UNCHANGED <<users, issues, votes, comments, req, resp, atStart>>

\* for cat_data in default_categories:
\*     await db.categories.insert_one(Category(**cat_data).dict())
InitInsert(p) ==
    /\ pc[p] = "init_insert"
    /\ LET i == local[p].i
       IN  /\ categories' = categories \cup
                  {Stored(Category(p, i, default_categories[i]), ObjectId(p, i))}
           /\ IF i < Len(default_categories)
              THEN /\ local' = [local EXCEPT ![p].i = i + 1]
                   /\ UNCHANGED <<pc, resp>>
              ELSE /\ Return(p, [status |-> 200, success |-> TRUE])
                   /\ UNCHANGED local
    /\ UNCHANGED <<users, issues, votes, comments, req, atStart>>

----------------------------------------------------------------------------
\* GET /api/categories

\* The length given to every to_list call.
ListLength == 1000

\* cursor.to_list(length): the results a cursor over docs may give, each at
\* most `length` documents.
to_list(docs, length) ==
    IF Cardinality(docs) <= length
    THEN {docs}
    ELSE {S \in SUBSET docs : Cardinality(S) = length}

GetCategories(p) == Accept(p, [op |-> "get_categories"], "cat_find")

\* categories = await db.categories.find().to_list(1000)
\* return [Category(**object_id_to_str(cat)) for cat in categories]
CategoriesFind(p) ==
    /\ pc[p] = "cat_find"
    /\ \E found \in to_list(categories, ListLength) :
           Return(p, [categories |-> {object_id_to_str(cat) : cat \in found},
                      status |-> 200])
    /\ UNCHANGED <<users, categories, issues, votes, comments, req, local,
                   atStart>>

----------------------------------------------------------------------------
\* POST /api/issues

CreateIssue(p) ==
    \E user_id \in AuthorIdInputs, category_id \in CategoryIdInputs,
       voice_base64 \in Voices :
        /\ Accept(p, [op |-> "create_issue", user_id |-> user_id,
                      category_id |-> category_id,
                      voice_base64 |-> voice_base64,
                      location_lat |-> TestLat, location_long |-> TestLng],
                  IF voice_base64 # NoneStr THEN "create_transcribe"
                                            ELSE "create_insert")

\* What the LLM client does inside transcribe_audio's try block.
LlmOutcomes == {"returns", "raises"}

\* A slip: the except branch returns nothing.
transcribe_audio_except_none(llm) ==
    IF llm = "returns"
    THEN "Voice note recorded (transcription available in full version)"
    ELSE NoneStr

\* transcribe_audio: what it returns when the LLM call returns, and what
\* its except branch returns when the call raises.
transcribe_audio(llm) ==
    IF llm = "returns"
    THEN "Voice note recorded (transcription available in full version)"
    ELSE "Voice note recorded (transcription failed)"

\* voice_transcript = await transcribe_audio(issue_data.voice_base64)
CreateTranscribe(p) ==
    /\ pc[p] = "create_transcribe"
    /\ \E llm \in LlmOutcomes :
           local' = [local EXCEPT ![p].voice_transcript = transcribe_audio(llm),
                                  ![p].llm = llm]
    /\ Goto(p, "create_insert")
    /\ UNCHANGED <<users, categories, issues, votes, comments, req, resp, atStart>>

\* result = await db.issues.insert_one(issue.dict())
CreateInsert(p) ==
    /\ pc[p] = "create_insert"
    /\ LET issue == Issue(p, req[p].user_id, req[p].category_id,
                          req[p].voice_base64, local[p].voice_transcript,
                          req[p].location_lat, req[p].location_long,
                          utcnow(issues))
           inserted_id == ObjectId(p, 1)
       IN  /\ issues' = issues \cup {Stored(issue, inserted_id)}
           /\ Return(p, [status |-> 200, success |-> TRUE,
                         issue |-> WithInsertedId(issue, inserted_id)])
    /\ UNCHANGED <<users, categories, votes, comments, req, local, atStart>>

----------------------------------------------------------------------------
\* GET /api/issues/{issue_id}

GetIssue(p) ==
    \E issue_id \in IssueIdInputs :
        Accept(p, [op |-> "get_issue", issue_id |-> issue_id], "get_find")

\* A slip: the filter is {}, which every document matches.
EmptyFilter(doc, id) == TRUE

\* The filter {"id": ...}: it reads the field `id`, never `_id`.
IdFilter(doc, id) == doc.id = id

\* issue = await db.issues.find_one({"id": issue_id})
GetFind(p) ==
    /\ pc[p] = "get_find"
    /\ LET found == {i \in issues : IdFilter(i, req[p].issue_id)}
       IN  IF found = {}
           THEN Return(p, HTTPException(404, "Issue not found")) /\ UNCHANGED local
           ELSE \E i \in found :
                    /\ local' = [local EXCEPT ![p].doc = object_id_to_str(i)]
                    /\ Goto(p, "get_user")
                    /\ UNCHANGED resp
    /\ UNCHANGED <<users, categories, issues, votes, comments, req, atStart>>

\* user = await db.users.find_one({"id": issue["user_id"]})
\* if user: issue["user_name"] = user["name"]
GetUser(p) ==
    /\ pc[p] = "get_user"
    /\ LET found == {u \in users : IdFilter(u, local[p].doc.user_id)}
       IN  IF found = {}
           THEN UNCHANGED local
           ELSE \E u \in found :
                    local' = [local EXCEPT ![p].user_name = u.name]
    /\ Goto(p, "get_category")
    /\ UNCHANGED <<users, categories, issues, votes, comments, req, resp, atStart>>

\* The issue dict as get returns it: the stored keys, and the keys the
\* handler added (Absent when it added none).
IssueWithContext(issue, user_name, category_name, category_icon) ==
    [status |-> 200, issue |-> issue, user_name |-> user_name,
     category_name |-> category_name, category_icon |-> category_icon]

\* category = await db.categories.find_one({"id": issue["category_id"]})
\* if category: issue["category_name"] = ...; issue["category_icon"] = ...
GetCategory(p) ==
    /\ pc[p] = "get_category"
    /\ LET issue == local[p].doc
           found == {c \in categories : IdFilter(c, issue.category_id)}
       IN  IF found = {}
           THEN Return(p, IssueWithContext(issue, local[p].user_name,
                                           Absent, Absent))
           ELSE \E c \in found :
                    Return(p, IssueWithContext(issue, local[p].user_name,
                                               c.name, c.icon))
    /\ UNCHANGED <<users, categories, issues, votes, comments, req, local, atStart>>

----------------------------------------------------------------------------
\* GET /api/issues

\* An Optional[float] is a set of at most one number: {} is None.
\* The defaults of radius and limit.
DefaultRadius == 5
DefaultLimit == 50

\* 0.05 degree.
BoxHalf == 5

LatInputs == {{}, {0}, {TestLat}}
LngInputs == {{}, {0}, {TestLng}}
RadiusInputs == {{DefaultRadius}, {1}}
LimitInputs == 1..MaxLimit \cup {DefaultLimit}

\* category_id: not given, empty, the category of a stored issue, or none.
ListCategoryInputs ==
    {NoneId, EmptyStr, InvalidId} \cup {i.category_id : i \in issues}

ListIssues(p) ==
    /\ \E lat \in LatInputs, lng \in LngInputs, radius \in RadiusInputs,
          category_id \in ListCategoryInputs, limit \in LimitInputs :
           Accept(p, [op |-> "get_issues", category_id |-> category_id,
                      lat |-> lat, lng |-> lng, radius |-> radius,
                      limit |-> limit], "list_aggregate")

\* Python's truth value of an Optional[float]: None and 0.0 are false.
TruthyFloat(x) == x # {} /\ x # {0}

\* Python's truth value of an Optional[str]: None and "" are false.
TruthyStr(x) == x # NoneId /\ x # EmptyStr

\* The number an Optional[float] holds.
Value(x) == CHOOSE v \in x : TRUE

\* The $match stage: match_conditions holds location_lat and location_long
\* only `if lat and lng`, and category_id only `if category_id`; with no
\* condition there is no $match stage and every issue passes.
match_conditions(issue, lat, lng, category_id) ==
    /\ (TruthyFloat(lat) /\ TruthyFloat(lng)) =>
          /\ issue.location_lat >= Value(lat) - BoxHalf
          /\ issue.location_lat <= Value(lat) + BoxHalf
          /\ issue.location_long >= Value(lng) - BoxHalf
          /\ issue.location_long <= Value(lng) + BoxHalf
    /\ TruthyStr(category_id) => issue.category_id = category_id

\* A slip: the sort leaves created_at out.
SortsBeforeByVotes(a, b) == a.vote_count > b.vote_count

\* {"vote_count": -1, "created_at": -1}: a sorts strictly before b.
SortsBefore(a, b) ==
    \/ a.vote_count > b.vote_count
    \/ a.vote_count = b.vote_count /\ a.created_at > b.created_at

\* A sort: the orders it may give the documents, `before` being the pairs
\* <<a, b>> where a sorts strictly before b; among documents equal in the
\* sort keys MongoDB promises no order.
Orders(docs, before) ==
    {s \in [1..Cardinality(docs) -> docs] :
        \A j, k \in 1..Cardinality(docs) :
            j < k => s[j] # s[k] /\ <<s[k], s[j]>> \notin before}

\* The $sort stage.
sort_stage(docs) ==
    Orders(docs, {<<a, b>> \in docs \X docs : SortsBefore(a, b)})

\* The $limit stage, and to_list(limit) after it: the first `limit` documents.
limit_stage(s, limit) ==
    SubSeq(s, 1, IF limit < Len(s) THEN limit ELSE Len(s))

\* issues = await db.issues.aggregate(pipeline).to_list(limit)
ListAggregate(p) ==
    /\ pc[p] = "list_aggregate"
    /\ LET matched == {i \in issues :
                          match_conditions(i, req[p].lat, req[p].lng,
                                           req[p].category_id)}
       IN  \E sorted \in sort_stage(matched) :
               LET rows == limit_stage(sorted, req[p].limit)
               IN  IF rows = << >>
                   THEN /\ Return(p, [issues |-> << >>, status |-> 200])
                        /\ UNCHANGED local
                   ELSE /\ local' = [local EXCEPT ![p].rows = rows, ![p].i = 1]
                        /\ Goto(p, "list_user")
                        /\ UNCHANGED resp
    /\ UNCHANGED <<users, categories, issues, votes, comments, req, atStart>>

\* for issue in issues: issue = object_id_to_str(issue)
\*     user = await db.users.find_one({"id": issue["user_id"]})
\*     if user: issue["user_name"] = user["name"]
ListUser(p) ==
    /\ pc[p] = "list_user"
    /\ LET issue == object_id_to_str(local[p].rows[local[p].i])
           found == {u \in users : IdFilter(u, issue.user_id)}
       IN  IF found = {}
           THEN local' = [local EXCEPT ![p].user_name = Absent]
           ELSE \E u \in found :
                    local' = [local EXCEPT ![p].user_name = u.name]
    /\ Goto(p, "list_category")
    /\ UNCHANGED <<users, categories, issues, votes, comments, req, resp,
                   atStart>>

\*     category = await db.categories.find_one({"id": issue["category_id"]})
\*     if category: issue["category_name"] = ...; issue["category_icon"] = ...
\*     result.append(issue)
\* return result
ListCategory(p) ==
    /\ pc[p] = "list_category"
    /\ LET i == local[p].i
           issue == object_id_to_str(local[p].rows[i])
           found == {c \in categories : IdFilter(c, issue.category_id)}
           rows == IF found = {}
                   THEN {IssueWithContext(issue, local[p].user_name,
                                          Absent, Absent)}
                   ELSE {IssueWithContext(issue, local[p].user_name,
                                          c.name, c.icon) : c \in found}
       IN  \E row \in rows :
               LET result == Append(local[p].result, row)
               IN  IF i < Len(local[p].rows)
                   THEN /\ local' = [local EXCEPT ![p].i = i + 1,
                                                  ![p].result = result]
                        /\ Goto(p, "list_user")
                        /\ UNCHANGED resp
                   ELSE /\ local' = [local EXCEPT ![p].result = result]
                        /\ Return(p, [issues |-> result, status |-> 200])
    /\ UNCHANGED <<users, categories, issues, votes, comments, req, atStart>>

----------------------------------------------------------------------------
\* POST /api/issues/{issue_id}/vote

VoteIssue(p) ==
    \E issue_id \in IssueIdInputs, user_id \in ClientUserIds :
        Accept(p, [op |-> "vote_issue", user_id |-> user_id,
                   issue_id |-> issue_id], "vote_find")

\* The filter {"issue_id": issue_id, "user_id": user_id}.
VoteFilter(v, issue_id, user_id) == v.issue_id = issue_id /\ v.user_id = user_id

\* existing_vote = await db.votes.find_one({...})
VoteFind(p) ==
    /\ pc[p] = "vote_find"
    /\ LET found == {v \in votes : VoteFilter(v, req[p].issue_id, req[p].user_id)}
       IN  IF found = {}
           THEN Goto(p, "vote_insert") /\ UNCHANGED local
           ELSE \E v \in found :
                    /\ local' = [local EXCEPT ![p].doc = v]
                    /\ Goto(p, "vote_delete")
    /\ UNCHANGED <<users, categories, issues, votes, comments, req, resp, atStart>>

\* A slip: the vote is looked up under the id the API shows for it.
DeleteVoteFilterOnStrId(v, existing_vote) == v.id = Str(existing_vote._id)

\* The filter {"id": existing_vote["id"]}.
DeleteVoteFilter(v, existing_vote) == IdFilter(v, existing_vote.id)

\* await db.votes.delete_one({"id": existing_vote["id"]})
VoteDelete(p) ==
    /\ pc[p] = "vote_delete"
    /\ LET found == {v \in votes : DeleteVoteFilter(v, local[p].doc)}
       IN  IF found = {}
           THEN UNCHANGED votes
           ELSE \E v \in found : votes' = votes \ {v}
    /\ Goto(p, "vote_dec")
    /\ UNCHANGED <<users, categories, issues, comments, req, local, resp, atStart>>

\* A slip: the update is an upsert, which stores a new document when none
\* matches.
inc_vote_count_upsert(coll, issue_id, delta) ==
    IF \E i \in coll : i.id = issue_id
    THEN {IF i.id = issue_id THEN [i EXCEPT !.vote_count = @ + delta] ELSE i :
             i \in coll}
    ELSE coll \cup
         {[Stored(Issue(0, NoneId, NoneId, NoneStr, NoneStr, 0, 0, 0),
                  ObjectId(0, 0))
              EXCEPT !.id = issue_id, !.vote_count = delta]}

\* A slip: the counter is kept from going below 0.
inc_vote_count_floor(coll, issue_id, delta) ==
    {IF i.id = issue_id
     THEN [i EXCEPT !.vote_count = IF @ + delta < 0 THEN 0 ELSE @ + delta]
     ELSE i : i \in coll}

\* A slip: the update also moves the issue on to "in_progress".
inc_vote_count_in_progress(coll, issue_id, delta) ==
    {IF i.id = issue_id
     THEN [i EXCEPT !.status = "in_progress", !.vote_count = @ + delta]
     ELSE i : i \in coll}

\* update_one({"id": issue_id}, {"$inc": {"vote_count": delta}}): one atomic
\* store call; it changes one document that matches, or none when none does
\* (the uuid4 in `id` is unique, so at most one matches).
inc_vote_count(coll, issue_id, delta) ==
    {IF IdFilter(i, issue_id) THEN [i EXCEPT !.vote_count = @ + delta] ELSE i :
        i \in coll}

\* await db.issues.update_one({"id": issue_id}, {"$inc": {"vote_count": -1}})
VoteDec(p) ==
    /\ pc[p] = "vote_dec"
    /\ issues' = inc_vote_count(issues, req[p].issue_id, -1)
    /\ Return(p, [status |-> 200, success |-> TRUE, voted |-> FALSE])
    /\ UNCHANGED <<users, categories, votes, comments, req, local, atStart>>

\* await db.votes.insert_one(vote.dict())
VoteInsert(p) ==
    /\ pc[p] = "vote_insert"
    /\ votes' = votes \cup
           {Stored(Vote(p, req[p].issue_id, req[p].user_id), ObjectId(p, 1))}
    /\ Goto(p, "vote_inc")
    /\ UNCHANGED <<users, categories, issues, comments, req, local, resp, atStart>>

\* await db.issues.update_one({"id": issue_id}, {"$inc": {"vote_count": 1}})
VoteInc(p) ==
    /\ pc[p] = "vote_inc"
    /\ issues' = inc_vote_count(issues, req[p].issue_id, 1)
    /\ Return(p, [status |-> 200, success |-> TRUE, voted |-> TRUE])
    /\ UNCHANGED <<users, categories, votes, comments, req, local, atStart>>

----------------------------------------------------------------------------
\* POST /api/issues/{issue_id}/comments

\* The issue a comment is on: an issue as the API shows it, or none.
CommentIssueInputs == {Str(i._id) : i \in issues} \cup {InvalidId}

\* Its author: a registered user, by the id the API shows or by the stored
\* field `id`.
CommentAuthorInputs == {Str(u._id) : u \in users} \cup {u.id : u \in users}

Messages == {"Same problem on my street"}

AddComment(p) ==
    \E issue_id \in CommentIssueInputs, user_id \in CommentAuthorInputs,
       message \in Messages :
        Accept(p, [op |-> "add_comment", user_id |-> user_id,
                   issue_id |-> issue_id, message |-> message],
               "comment_insert")

\* result = await db.comments.insert_one(comment.dict())
CommentInsert(p) ==
    /\ pc[p] = "comment_insert"
    /\ LET comment == Comment(p, req[p].issue_id, req[p].user_id,
                              req[p].message, utcnow(comments))
           inserted_id == ObjectId(p, 1)
       IN  /\ comments' = comments \cup {Stored(comment, inserted_id)}
           /\ Return(p, [status |-> 200, success |-> TRUE,
                         comment |-> WithInsertedId(comment, inserted_id)])
    /\ UNCHANGED <<users, categories, issues, votes, req, local, atStart>>

----------------------------------------------------------------------------
\* GET /api/issues/{issue_id}/comments

GetComments(p) ==
    \E issue_id \in CommentIssueInputs :
        Accept(p, [op |-> "get_comments", issue_id |-> issue_id],
               "comments_find")

\* The filter {"issue_id": issue_id}.
CommentFilter(c, issue_id) == c.issue_id = issue_id

\* A slip: the sort is ascending.
OlderFirst(a, b) == a.created_at < b.created_at

\* sort("created_at", -1): a sorts strictly before b.
NewerFirst(a, b) == a.created_at > b.created_at

\* The first `length` documents of a sorted cursor.
to_list_sorted(s, length) ==
    SubSeq(s, 1, IF length < Len(s) THEN length ELSE Len(s))

\* comments = await db.comments.find({"issue_id": issue_id})
\*                .sort("created_at", -1).to_list(1000)
CommentsFind(p) ==
    /\ pc[p] = "comments_find"
    /\ LET found == {c \in comments : CommentFilter(c, req[p].issue_id)}
       IN  \E sorted \in Orders(found, {<<a, b>> \in found \X found :
                                                NewerFirst(a, b)}) :
               LET rows == to_list_sorted(sorted, ListLength)
               IN  IF rows = << >>
                   THEN /\ Return(p, [comments |-> << >>, status |-> 200])
                        /\ UNCHANGED local
                   ELSE /\ local' = [local EXCEPT ![p].rows = rows, ![p].i = 1]
                        /\ Goto(p, "comments_user")
                        /\ UNCHANGED resp
    /\ UNCHANGED <<users, categories, issues, votes, comments, req, atStart>>

\* The comment dict as the list returns it: the stored keys, and user_name
\* (Absent when the handler added none).
CommentWithAuthor(comment, user_name) ==
    [user_name |-> user_name, comment |-> comment]

\* for comment in comments: comment = object_id_to_str(comment)
\*     user = await db.users.find_one({"id": comment["user_id"]})
\*     if user: comment["user_name"] = user["name"]
\*     result.append(comment)
\* return result
CommentsUser(p) ==
    /\ pc[p] = "comments_user"
    /\ LET i == local[p].i
           comment == object_id_to_str(local[p].rows[i])
           found == {u \in users : IdFilter(u, comment.user_id)}
           rows == IF found = {}
                   THEN {CommentWithAuthor(comment, Absent)}
                   ELSE {CommentWithAuthor(comment, u.name) : u \in found}
       IN  \E row \in rows :
               LET result == Append(local[p].result, row)
               IN  IF i < Len(local[p].rows)
                   THEN /\ local' = [local EXCEPT ![p].i = i + 1,
                                                  ![p].result = result]
                        /\ UNCHANGED <<pc, resp>>
                   ELSE /\ local' = [local EXCEPT ![p].result = result]
                        /\ Return(p, [comments |-> result, status |-> 200])
    /\ UNCHANGED <<users, categories, issues, votes, comments, req, atStart>>

----------------------------------------------------------------------------
\* The service.

InitProcs ==
    /\ pc = [p \in Procs |-> "idle"]
    /\ req = [p \in Procs |-> NoRequest]
    /\ local = [p \in Procs |->
                  [doc |-> None, voice_transcript |-> NoneStr, i |-> 0,
                   llm |-> "not called", user_name |-> Absent,
                   rows |-> << >>, result |-> << >>]]
    /\ resp = [p \in Procs |-> NoResponse]
    /\ atStart = [p \in Procs |-> NoSnapshot]

\* An empty database.
Init ==
    /\ users = {}
    /\ categories = {}
    /\ issues = {}
    /\ votes = {}
    /\ comments = {}
    /\ InitProcs

\* A request arrives.
AcceptRequest(p) ==
    \/ Register(p)
    \/ Login(p)
    \/ InitCategories(p)
    \/ CreateIssue(p)
    \/ GetIssue(p)
    \/ VoteIssue(p)

\* A handler makes its next store call.
StoreCall(p) ==
    \/ RegFind(p)
    \/ RegInsert(p)
    \/ LoginFind(p)
    \/ InitDelete(p)
    \/ InitInsert(p)
    \/ CreateTranscribe(p)
    \/ CreateInsert(p)
    \/ GetFind(p)
    \/ GetUser(p)
    \/ GetCategory(p)
    \/ VoteFind(p)
    \/ VoteDelete(p)
    \/ VoteDec(p)
    \/ VoteInsert(p)
    \/ VoteInc(p)

\* Requests are served concurrently: any handler may run between two store
\* calls of another.  These are the handlers that write the database
\* (add_comment aside) and get_issue; the handlers that only list, and the
\* comments, are served by the specifications further down.
Next == \E p \in Procs : AcceptRequest(p) \/ StoreCall(p)

Spec == Init /\ [][Next]_vars

\* The service when clients send only register and login requests, served
\* concurrently.  No other handler reads or writes db.users.
NextUsers ==
    \E p \in Procs :
        \/ Register(p)
        \/ Login(p)
        \/ RegFind(p)
        \/ RegInsert(p)
        \/ LoginFind(p)

SpecUsers == Init /\ [][NextUsers]_vars

\* The service when clients send only categories requests (list and reset),
\* served concurrently.  No other handler writes db.categories.
NextCategories ==
    \E p \in Procs :
        \/ GetCategories(p)
        \/ InitCategories(p)
        \/ CategoriesFind(p)
        \/ InitDelete(p)
        \/ InitInsert(p)

SpecCategories == Init /\ [][NextCategories]_vars

\* Requests are served one after another: a request is accepted only when
\* no other is being served.
Quiet == \A p \in Procs : ~InFlight(p)

\* A database that earlier requests have filled.  John has registered and
\* the categories are seeded.
StartUser ==
    Stored(User(-1, "John Doe", "john@example.com",
                Sha256Hex("securepassword123")), ObjectId(-1, 1))

StartCategory(k) == Stored(Category(0, k, default_categories[k]), ObjectId(0, k))

\* An issue a create request stored, and the votes since cast on it.
StartIssue(p, user_id, category_id, location_lat, location_long, created_at, vote_count) ==
    [Stored(Issue(p, user_id, category_id, NoneStr, NoneStr, location_lat,
                  location_long, created_at), ObjectId(p, 1))
        EXCEPT !.vote_count = vote_count]

\* Five issues.  All but the fourth name their category by the id the API
\* shows for it, the first and third their author likewise; the fourth
\* names both by the stored field `id`.  The first two were built at the
\* same clock reading and have as many votes, so has the fifth, built
\* later; the second lies on the edge of the box around the first, the
\* third just outside it.
StartIssues ==
    {StartIssue(-2, Str(StartUser._id), Str(StartCategory(1)._id),
                TestLat, TestLng, 1, 1),
     StartIssue(-3, <<"client", 1, 0>>, Str(StartCategory(1)._id),
                TestLat + BoxHalf, TestLng - BoxHalf, 1, 1),
     StartIssue(-4, Str(StartUser._id), Str(StartCategory(1)._id),
                TestLat + BoxHalf + 1, TestLng, 3, 0),
     StartIssue(-5, StartUser.id, StartCategory(2).id, 0, 2, 2, 2),
     StartIssue(-6, <<"client", 2, 0>>, Str(StartCategory(1)._id),
                0, 0, 4, 1)}

\* The Vote rows behind the vote_count of the issues in `stored`: only a
\* vote cast under the stored field `id` of an issue moves its counter.
StartVotes(stored) ==
    {Stored(Vote(i.id[2] - 10 * k, i.id, <<"client", k, 0>>),
            ObjectId(i.id[2] - 10 * k, 1)) :
        <<i, k>> \in {<<j, n>> \in stored \X (1..2) : n <= j.vote_count}}

InitIssues ==
    /\ users = {StartUser}
    /\ categories = {StartCategory(k) : k \in DOMAIN default_categories}
    /\ issues \in SUBSET StartIssues
    /\ votes = StartVotes(issues)
    /\ comments = {}
    /\ InitProcs

\* The service when a client sends one request that reads issues, list or
\* get: nothing is written, so a second request would be answered from the
\* same database.
NextIssues ==
    \E p \in Procs :
        \/ (\A q \in Procs : pc[q] = "idle") /\ ListIssues(p)
        \/ (\A q \in Procs : pc[q] = "idle") /\ GetIssue(p)
        \/ GetFind(p)
        \/ GetUser(p)
        \/ GetCategory(p)
        \/ ListAggregate(p)
        \/ ListUser(p)
        \/ ListCategory(p)

SpecIssues == InitIssues /\ [][NextIssues]_vars

\* Two comments on the first issue, built at the same clock reading.
StartComments ==
    {Stored(Comment(-k, Str(ObjectId(-2, 1)), <<"client", k, 0>>,
                    "Please fix this", 1), ObjectId(-k, 2)) : k \in 7..8}

InitComments ==
    /\ users = {StartUser}
    /\ categories = {StartCategory(k) : k \in DOMAIN default_categories}
    /\ issues = {i \in StartIssues : i._id = ObjectId(-2, 1)}
    /\ votes = StartVotes(issues)
    /\ comments \in {{}, StartComments}
    /\ InitProcs

\* The service when clients send only comment requests, one after another.
NextComments ==
    \E p \in Procs :
        \/ Quiet /\ AddComment(p)
        \/ Quiet /\ GetComments(p)
        \/ CommentInsert(p)
        \/ CommentsFind(p)
        \/ CommentsUser(p)

SpecComments == InitComments /\ [][NextComments]_vars

\* The first issue with its one vote, and nothing in flight.
InitVotes ==
    /\ users = {StartUser}
    /\ categories = {StartCategory(k) : k \in DOMAIN default_categories}
    /\ issues = {i \in StartIssues : i._id = ObjectId(-2, 1)}
    /\ votes = StartVotes(issues)
    /\ comments = {}
    /\ InitProcs

\* The service when clients send only vote requests, of which it serves
\* up to two at a time.
NextVotes ==
    \E p \in Procs :
        \/ (\A q, r \in Procs : InFlight(q) /\ InFlight(r) => q = r)
              /\ VoteIssue(p)
        \/ VoteFind(p)
        \/ VoteDelete(p)
        \/ VoteDec(p)
        \/ VoteInsert(p)
        \/ VoteInc(p)

SpecVotes == InitVotes /\ [][NextVotes]_vars

\* Category collections a deployment may hold before the first request:
\* none, or what two reseeds that ran together and were cut short left
\* behind (some seed categories missing, one doubled).
Seeded(p, ks) ==
    {Stored(Category(p, k, default_categories[k]), ObjectId(p, k)) : k \in ks}

StartCategories == {{}, Seeded(0, 1..3) \cup Seeded(-1, {3})}

InitSeq ==
    /\ users = {}
    /\ categories \in StartCategories
    /\ issues = {}
    /\ votes = {}
    /\ comments = {}
    /\ InitProcs

NextSeq == \E p \in Procs : (Quiet /\ AcceptRequest(p)) \/ StoreCall(p)

SpecSeq == InitSeq /\ [][NextSeq]_vars

----------------------------------------------------------------------------
\* Notions the properties share.

\* The id the API shows for a stored document (create's response, get, list).
ApiId(doc) == Str(doc._id)

\* issue_id names issue i: by the stored field `id` or by the id the API shows.
Refers(issue_id, i) == issue_id = i.id \/ issue_id = ApiId(i)

VoteRows(issue_id, user_id) ==
    {v \in votes : v.issue_id = issue_id /\ v.user_id = user_id}

Done(p, op) == req[p].op = op /\ pc[p] = "done"

\* Request p has returned and no request has been accepted after it.
JustDone(p, op) ==
    /\ Done(p, op)
    /\ IF p = NumProcs THEN TRUE ELSE pc[p + 1] = "idle"

\* The stored issue with the `_id` of i, as it is now.
Now(i) == CHOOSE j \in issues : j._id = i._id

----------------------------------------------------------------------------
\* C1: in every reachable state, the states between the store calls of a
\* toggle_vote included, each issue's vote_count is the number of Vote rows
\* whose issue_id refers to it.
C1_VoteCountIsRowCount ==
    \A i \in issues :
        i.vote_count = Cardinality({v \in votes : Refers(v.issue_id, i)})

\* C2: in every reachable state there is at most one Vote row for each
\* (issue_id, user_id) pair.
C2_OneVotePerPair ==
    \A v \in votes : Cardinality(VoteRows(v.issue_id, v.user_id)) <= 1

\* C3: for an existing issue addressed by the id the API returned for it, a
\* toggle_vote that returns voted=true raises the stored vote_count by
\* exactly 1 and one that returns voted=false lowers it by exactly 1.
C3_ToggleMovesCountByOne ==
    \A p \in Procs :
        JustDone(p, "vote_issue") =>
            \A i \in atStart[p].issues :
                req[p].issue_id = ApiId(i) =>
                    Now(i).vote_count =
                        i.vote_count + (IF resp[p].voted THEN 1 ELSE -1)

\* C4: two toggle_vote calls one after the other by the same user on the
\* same issue, the user having no vote at the start, return voted=true then
\* voted=false, leave no Vote row for the pair and leave every vote_count
\* as it was before the first call.
C4_ToggleTwiceRestores ==
    \A p \in Procs \ {NumProcs} :
        ( /\ Done(p, "vote_issue")
          /\ JustDone(p + 1, "vote_issue")
          /\ req[p + 1] = req[p]
          /\ \A v \in atStart[p].votes :
                ~(v.issue_id = req[p].issue_id /\ v.user_id = req[p].user_id) )
        => /\ resp[p].voted = TRUE
           /\ resp[p + 1].voted = FALSE
           /\ VoteRows(req[p].issue_id, req[p].user_id) = {}
           /\ issues = atStart[p].issues

\* C4's case: both calls have returned, for an issue whose counter the
\* first call raised.
C4_Witness ==
    \E p \in Procs \ {NumProcs} :
        /\ Done(p, "vote_issue")
        /\ JustDone(p + 1, "vote_issue")
        /\ req[p + 1] = req[p]
        /\ \E i \in atStart[p].issues :
              /\ req[p].issue_id = i.id
              /\ \E j \in atStart[p + 1].issues :
                    j._id = i._id /\ j.vote_count = i.vote_count + 1

\* C5: when N distinct users who have not voted on an existing issue each
\* submit one toggle_vote for it, its vote_count has grown by N once all N
\* requests have returned, whatever the interleaving.
C5_DistinctVotersAddUp ==
    \A i \in issues :
        LET V == {p \in Procs : req[p].op = "vote_issue"
                                /\ Refers(req[p].issue_id, i)}
        IN  ( /\ V # {}
              /\ \A p \in V : /\ pc[p] = "done"
                              /\ \E j \in atStart[p].issues : j._id = i._id
              /\ \A p, q \in V : p # q => req[p].user_id # req[q].user_id )
            => i.vote_count = Cardinality(V)

\* C6: after create returns an issue, get with the id of that response
\* succeeds and returns that issue (same id) with vote_count = 0 and
\* status = "pending".
C6_GetAfterCreate ==
    \A p \in Procs \ {NumProcs} :
        ( /\ Done(p, "create_issue")
          /\ Done(p + 1, "get_issue")
          /\ req[p + 1].issue_id = resp[p].issue.id )
        => /\ resp[p + 1].status = 200
           /\ resp[p + 1].issue.id = resp[p].issue.id
           /\ resp[p + 1].issue.vote_count = 0
           /\ resp[p + 1].issue.status = "pending"

\* C7: with requests served one after another, register with an email no
\* stored User holds succeeds and adds exactly one User (with that email);
\* with an email a stored User holds it fails with HTTP 400 and leaves the
\* Users as they were.
C7_RegisterSequential ==
    \A p \in Procs :
        JustDone(p, "register") =>
            IF \E u \in atStart[p].users : u.email = req[p].email
            THEN /\ resp[p].status = 400
                 /\ users = atStart[p].users
            ELSE /\ resp[p].status = 200
                 /\ atStart[p].users \subseteq users
                 /\ Cardinality(users) = Cardinality(atStart[p].users) + 1
                 /\ \A u \in users \ atStart[p].users : u.email = req[p].email

\* C7's case: the same email registered twice, accepted and then refused.
C7_Witness ==
    \E p \in Procs \ {NumProcs} :
        /\ Done(p, "register") /\ resp[p].status = 200
        /\ JustDone(p + 1, "register") /\ resp[p + 1].status = 400
        /\ req[p + 1].email = req[p].email

\* C8: in every reachable state no two User records have the same email.
C8_EmailsUnique ==
    \A u \in users : Cardinality({w \in users : w.email = u.email}) = 1

\* C9: login succeeds exactly when a stored User has the email together
\* with the hash of the supplied password, and then returns a User with
\* that email; otherwise it fails with HTTP 401; the store is unchanged
\* either way.
C9_Login ==
    [][\A p \in Procs :
          /\ (pc[p] = "idle" /\ pc'[p] = "login_find") => store' = store
          /\ (pc[p] = "login_find" /\ pc'[p] = "done") =>
                /\ store' = store
                /\ IF \E u \in users :
                         /\ u.email = req[p].email
                         /\ u.password_hash = Sha256Hex(req[p].password)
                   THEN /\ resp'[p].status = 200
                        /\ resp'[p].user.email = req[p].email
                   ELSE resp'[p].status = 401]_vars

\* C9's case: one login accepted, and one refused for the password alone.
C9_Witness ==
    \E p, q \in Procs :
        /\ Done(p, "login") /\ resp[p].status = 200
        /\ Done(q, "login") /\ resp[q].status = 401
        /\ req[q].email = req[p].email

\* C10: from any starting category collection, once k >= 1 reseeds have run
\* one after another the collection holds exactly 7 categories, each seed
\* name once, and their (name, description, icon) are the seed's: the same
\* after the second reseed as after the first.
C10_ReseedIdempotent ==
    LET R == {p \in Procs : req[p].op = "init_categories"}
        seed == {default_categories[k] : k \in DOMAIN default_categories}
    IN  (R # {} /\ \A p \in R : pc[p] = "done") =>
            /\ Cardinality(categories) = 7
            /\ \A d \in seed :
                  Cardinality({c \in categories : c.name = d.name}) = 1
            /\ {[name |-> c.name, description |-> c.description,
                 icon |-> c.icon] : c \in categories} = seed

\* C10's case: a second reseed has returned.
C10_Witness ==
    \E p, q \in Procs :
        p # q /\ Done(p, "init_categories") /\ Done(q, "init_categories")

\* The collection cs holds exactly the seed categories, each once.
SeedOnce(cs) ==
    /\ Cardinality(cs) = Len(default_categories)
    /\ \A k \in DOMAIN default_categories :
          Cardinality({c \in cs : c.name = default_categories[k].name}) = 1

\* C11: in every reachable state, the states a concurrent categories list
\* observes while a reset runs and the states two interleaved resets reach
\* included, the Category collection is empty or holds exactly the 7 seed
\* categories, each once; so does every list a categories request returned.
C11_EmptyOrSeed ==
    /\ categories = {} \/ SeedOnce(categories)
    /\ \A p \in Procs :
          Done(p, "get_categories") =>
              resp[p].categories = {} \/ SeedOnce(resp[p].categories)

\* The issue documents a list request returned, in order.
Listed(p) == [k \in DOMAIN resp[p].issues |-> resp[p].issues[k].issue]

\* The list request p returned exactly the first req[p].limit of the issues
\* stored at its start that have its category_id (all when they are fewer),
\* by vote_count descending and, among equal vote_count, created_at
\* descending.
ListedByCategory(p) ==
    LET M == {i \in atStart[p].issues : i.category_id = req[p].category_id}
        res == Listed(p)
        unlisted == {i \in M : \A k \in DOMAIN res : res[k].id # ApiId(i)}
    IN  /\ Len(res) = IF req[p].limit < Cardinality(M)
                      THEN req[p].limit ELSE Cardinality(M)
        /\ \A k \in DOMAIN res : \E i \in M : res[k] = object_id_to_str(i)
        /\ \A j, k \in DOMAIN res :
              j < k => /\ res[j].id # res[k].id
                       /\ \/ res[j].vote_count > res[k].vote_count
                          \/ /\ res[j].vote_count = res[k].vote_count
                             /\ res[j].created_at >= res[k].created_at
        /\ \A i \in unlisted : \A k \in DOMAIN res :
              \/ res[k].vote_count > i.vote_count
              \/ /\ res[k].vote_count = i.vote_count
                 /\ res[k].created_at >= i.created_at

\* C12 as claimed: list with category_id = X, whatever string X is, and
\* limit = L returns exactly the first L (all when fewer) of the stored
\* issues whose category_id is X, by vote_count descending then created_at
\* descending; no issue of another category appears.
C12_AnyCategoryId ==
    \A p \in Procs :
        ( /\ Done(p, "get_issues")
          /\ req[p].category_id # NoneId
          /\ req[p].lat = {} /\ req[p].lng = {} )
        => ListedByCategory(p)

\* C12, amended: the same for every non-empty string X.
C12_CategoryList ==
    \A p \in Procs :
        ( /\ Done(p, "get_issues")
          /\ req[p].category_id # NoneId
          /\ req[p].category_id # EmptyStr
          /\ req[p].lat = {} /\ req[p].lng = {} )
        => ListedByCategory(p)

\* C12's case: four stored issues have the category and two are asked for.
C12_Witness ==
    \E p \in Procs :
        /\ Done(p, "get_issues")
        /\ req[p].lat = {} /\ req[p].lng = {}
        /\ req[p].limit = 2
        /\ Len(resp[p].issues) = 2
        /\ Cardinality({i \in issues : i.category_id = req[p].category_id}) = 4

\* C13: for every lat and lng given to list, 0 included, and every radius,
\* the result holds only issues whose location_lat lies in
\* [lat - 0.05, lat + 0.05] and whose location_long lies in
\* [lng - 0.05, lng + 0.05].
C13_OnlyWithinBox ==
    \A p \in Procs :
        (Done(p, "get_issues") /\ req[p].lat # {} /\ req[p].lng # {}) =>
            \A lat \in req[p].lat, lng \in req[p].lng :
                \A k \in DOMAIN Listed(p) :
                    /\ Listed(p)[k].location_lat >= lat - 5
                    /\ Listed(p)[k].location_lat <= lat + 5
                    /\ Listed(p)[k].location_long >= lng - 5
                    /\ Listed(p)[k].location_long <= lng + 5

\* The returned issue `row` carries the name of its author and the name and
\* icon of its category, whenever it names them by the ids the API shows
\* for a stored User and a stored Category.
CarriesContext(row) ==
    \A u \in users, c \in categories :
        (row.issue.user_id = ApiId(u) /\ row.issue.category_id = ApiId(c)) =>
            /\ row.user_name = u.name
            /\ row.category_name = c.name
            /\ row.category_icon = c.icon

\* C14: every issue that list or get returns, whose user_id is the id the
\* API returned for an existing User and whose category_id is the id the
\* API returned for an existing Category, carries user_name, category_name
\* and category_icon equal to that user's name and that category's name
\* and icon.
C14_IssueContext ==
    \A p \in Procs :
        /\ Done(p, "get_issues") =>
              \A k \in DOMAIN resp[p].issues : CarriesContext(resp[p].issues[k])
        /\ (Done(p, "get_issue") /\ resp[p].status = 200) =>
              CarriesContext(resp[p])

\* C15: after add(issue_id, user_id, message) by a registered user, named
\* by the id the API returned for that user, list(issue_id) contains that
\* comment with user_name equal to that user's name.
C15_CommentCarriesAuthor ==
    \A p \in Procs \ {NumProcs} :
        ( /\ Done(p, "add_comment")
          /\ JustDone(p + 1, "get_comments")
          /\ req[p + 1].issue_id = req[p].issue_id )
        => \A u \in users :
               req[p].user_id = ApiId(u) =>
                   \E k \in DOMAIN resp[p + 1].comments :
                       /\ resp[p + 1].comments[k].comment.id
                             = resp[p].comment.id
                       /\ resp[p + 1].comments[k].user_name = u.name

\* C16: get(issue_id) with an id that identifies no stored Issue, neither
\* by the stored field `id` nor by the id the API shows, fails with
\* HTTP 404, and no step of it changes any collection.
C16_GetUnknown ==
    [][\A p \in Procs :
          /\ (pc[p] = "idle" /\ pc'[p] = "get_find") => store' = store
          /\ ( /\ pc[p] = "get_find" /\ pc'[p] # "get_find"
               /\ \A i \in issues : ~Refers(req[p].issue_id, i) )
             => /\ pc'[p] = "done"
                /\ resp'[p] = HTTPException(404, "Issue not found")
                /\ store' = store]_vars

\* C16's case: get has failed with 404 for "invalid-id" while an issue is
\* stored.
C16_Witness ==
    \E p \in Procs :
        /\ Done(p, "get_issue")
        /\ req[p].issue_id = InvalidId
        /\ resp[p].status = 404
        /\ issues # {}

\* C18: create with a voice attachment stores exactly one new Issue and
\* returns success, whether the transcription collaborator returns or
\* raises; when it raises, the stored voice_transcript is the fixed
\* placeholder string and no error reaches the caller.
C18_VoiceCreate ==
    \A p \in Procs :
        (JustDone(p, "create_issue") /\ req[p].voice_base64 # NoneStr) =>
            /\ resp[p].status = 200
            /\ resp[p].success = TRUE
            /\ atStart[p].issues \subseteq issues
            /\ Cardinality(issues \ atStart[p].issues) = 1
            /\ \A i \in issues \ atStart[p].issues :
                  /\ ApiId(i) = resp[p].issue.id
                  /\ i.voice_base64 = req[p].voice_base64
                  /\ local[p].llm = "raises" =>
                        i.voice_transcript
                            = "Voice note recorded (transcription failed)"

\* C18's case: a create with a voice attachment has returned after the
\* transcription raised.
C18_Witness ==
    \E p \in Procs :
        /\ JustDone(p, "create_issue")
        /\ req[p].voice_base64 # NoneStr
        /\ local[p].llm = "raises"
        /\ resp[p].status = 200

C19_VoteOnUnknownIssue ==
    \A p \in Procs :
        ( /\ JustDone(p, "vote_issue")
          /\ \A i \in atStart[p].issues : ~Refers(req[p].issue_id, i) )
        => LET before == {v \in atStart[p].votes :
                             /\ v.issue_id = req[p].issue_id
                             /\ v.user_id = req[p].user_id}
               after == VoteRows(req[p].issue_id, req[p].user_id)
           IN  /\ resp[p].status = 200
               /\ resp[p].success = TRUE
               /\ issues = atStart[p].issues
               /\ IF before = {}
                  THEN /\ resp[p].voted = TRUE
                       /\ Cardinality(after) = 1
                       /\ votes = atStart[p].votes \cup after
                  ELSE /\ resp[p].voted = FALSE
                       /\ after = {}
                       /\ votes = atStart[p].votes \ before

\* C19's case: two calls for "invalid-id" by the same user, one after the
\* other, while an issue is stored: the first inserted the row, the second
\* has removed it.
C19_Witness ==
    \E p \in Procs \ {NumProcs} :
        /\ Done(p, "vote_issue")
        /\ JustDone(p + 1, "vote_issue")
        /\ req[p].issue_id = InvalidId
        /\ req[p + 1] = req[p]
        /\ resp[p].voted = TRUE
        /\ resp[p + 1].voted = FALSE
        /\ issues # {}

\* Two toggle_vote requests by the same user on the same issue, named by
\* its stored field `id`, have raced: each found the same Vote row before
\* the other deleted it; both have returned and no request is in flight.
RacedToggles(p, q, i) ==
    /\ p # q
    /\ Quiet
    /\ Done(p, "vote_issue") /\ Done(q, "vote_issue")
    /\ req[p] = req[q]
    /\ req[p].issue_id = i.id
    /\ resp[p].voted = FALSE /\ resp[q].voted = FALSE
    /\ local[p].doc = local[q].doc

\* C20: there is an interleaving of two concurrent toggle_vote requests by
\* the same user on the same issue after which, with no request in flight,
\* the issue's vote_count differs from the number of its Vote rows: the
\* interleaving in which both look the vote up before either deletes it,
\* reached in C20_Witness, always ends so.
C20_RaceDesynchronizes ==
    \A p, q \in Procs : \A i \in issues :
        RacedToggles(p, q, i) =>
            i.vote_count # Cardinality({v \in votes : Refers(v.issue_id, i)})

\* C20's case: the two requests have raced and returned, the counter is 2
\* lower than at their start and the issue has 1 Vote row fewer.
C20_Witness ==
    \E p, q \in Procs : \E i \in issues :
        /\ RacedToggles(p, q, i)
        /\ \E j \in atStart[p].issues :
              /\ j._id = i._id
              /\ j.vote_count = Cardinality({v \in atStart[p].votes :
                                                Refers(v.issue_id, j)})
              /\ i.vote_count = j.vote_count - 2
        /\ Cardinality({v \in votes : Refers(v.issue_id, i)})
              = Cardinality({v \in atStart[p].votes : Refers(v.issue_id, i)}) - 1

\* C21: in every reachable state every issue's vote_count is >= 0, whatever
\* the sequence and interleaving of create and toggle_vote requests.
C21_VoteCountNonNegative == \A i \in issues : i.vote_count >= 0

\* C22: every issue is created with status "pending" (the create response
\* says so too), and every stored issue's status is "pending" in every
\* reachable state: no operation changes it.
C22_StatusStaysPending ==
    /\ \A i \in issues : i.status = "pending"
    /\ \A p \in Procs :
           Done(p, "create_issue") /\ resp[p].status = 200 =>
               resp[p].issue.status = "pending"

\* A created issue that a vote has since updated.
C22_Witness ==
    \E p, q \in Procs : \E i \in issues :
        /\ Done(p, "create_issue") /\ Done(q, "vote_issue")
        /\ i._id = ObjectId(p, 1)
        /\ req[q].issue_id = i.id
        /\ i.vote_count = 1

====
